---- MODULE Spec2Model ----
(***************************************************************************)
(* Model of py-datalake-move-files: app/main.py (predicate mode: list,     *)
(* filter by date and SalesCompanyId, confirm, download/upload/delete in   *)
(* batches on a thread pool) and app/app.py (manifest mode: names from a   *)
(* CSV, existence check, server-side copy in batches on a thread pool).    *)
(*                                                                         *)
(* Strings that the code takes apart (paths, prefixes) are sequences of    *)
(* one-character strings, so that startswith, lstrip, rstrip, replace and  *)
(* split are computed as Python computes them.                             *)
(***************************************************************************)
EXTENDS Integers, Sequences, FiniteSets, TLC

VARIABLES
    rw,             \* path rewriting: the inputs and the computed destination
    flt,            \* filter evaluation: one candidate, the criteria, the verdict
    script,         \* which script runs: "main" (main.py) or "app" (app.py)
    cfg,            \* module-level configuration of the running script
    store,          \* the container: path -> content, or NoFile
    dirs,           \* the directories that exist in the container
    store0,         \* the container's files as they were when the run began
    pc,             \* where main() is
    files,          \* main.py: list_files_in_path's result; app.py: csv_blob_paths
    k,              \* index of the next candidate the filtering loop looks at
    files_to_move,  \* main.py: files_to_move; app.py: matching_blobs
    i,              \* 0-based start of the current batch (the for loop's i)
    tasks,          \* per index of files_to_move: the submitted call's state
    successful,     \* main.py's counter
    failed,         \* main.py's counter
    mutations,      \* the mutating store operations called so far
    response,       \* main.py: what the operator typed at the prompt
    pending         \* server-side copies issued and not yet carried out

rwVars  == <<rw>>
fltVars == <<flt>>
runVars == <<script, cfg, store, dirs, store0, pc, files, k, files_to_move, i,
             tasks, successful, failed, mutations, response, pending>>
vars    == <<rw, flt, script, cfg, store, dirs, store0, pc, files, k,
             files_to_move, i, tasks, successful, failed, mutations, response,
             pending>>

-----------------------------------------------------------------------------
(* Bounds of the model.                                                    *)

MaxPathLen == 5
MaxPrefixLen == 2
MaxTime == 2
MaxFiles == 4
MaxBatch == 2
MaxWorkers == 2
MaxMoveFiles == 2

-----------------------------------------------------------------------------
(* Python's str operations on sequences of characters.                     *)

Sep == "/"

Alphabet == {Sep, "a", "b"}

Strings(n) == UNION {[1..m -> Alphabet] : m \in 0..n}

NoDoubledSep(s) == \A n \in 1..(Len(s) - 1) : ~(s[n] = Sep /\ s[n + 1] = Sep)

\* object names as the container lists them: not empty, no empty segment,
\* no separator at either end
ObjectNames(n) ==
    {s \in Strings(n) : /\ s # <<>>
                        /\ NoDoubledSep(s)
                        /\ s[1] # Sep
                        /\ s[Len(s)] # Sep}

\* configured prefixes: with or without a leading or a trailing separator,
\* no empty segment
Prefixes(n) == {s \in Strings(n) : NoDoubledSep(s)}

\* s.startswith(prefix)
StartsWith(s, prefix) ==
    /\ Len(prefix) <= Len(s)
    /\ SubSeq(s, 1, Len(prefix)) = prefix

\* s[n:]
DropFirst(s, n) == SubSeq(s, n + 1, Len(s))

\* s.lstrip('/')
RECURSIVE LStrip(_)
LStrip(s) ==
    IF s # <<>> /\ Head(s) = Sep THEN LStrip(Tail(s)) ELSE s

\* s.rstrip('/')
RECURSIVE RStrip(_)
RStrip(s) ==
    IF s # <<>> /\ s[Len(s)] = Sep THEN RStrip(SubSeq(s, 1, Len(s) - 1)) ELSE s

\* s.replace(old, new) for a non-empty old: one left-to-right pass over
\* non-overlapping occurrences; what the pass produces is not rescanned.
RECURSIVE ReplaceAll(_, _, _)
ReplaceAll(s, old, new) ==
    IF Len(s) < Len(old) THEN s
    ELSE IF StartsWith(s, old)
         THEN new \o ReplaceAll(DropFirst(s, Len(old)), old, new)
         ELSE <<Head(s)>> \o ReplaceAll(Tail(s), old, new)

\* s.replace(old, new, 1): the leftmost occurrence only. An empty old
\* matches at position 0, so new is put in front.
RECURSIVE ReplaceFirst(_, _, _)
ReplaceFirst(s, old, new) ==
    IF Len(s) < Len(old) THEN s
    ELSE IF StartsWith(s, old)
         THEN new \o DropFirst(s, Len(old))
         ELSE <<Head(s)>> \o ReplaceFirst(Tail(s), old, new)

\* s.split('/')[-1]: what follows the last separator
RECURSIVE LastSegment(_)
LastSegment(s) ==
    IF s = <<>> \/ s[Len(s)] = Sep THEN <<>>
    ELSE LastSegment(SubSeq(s, 1, Len(s) - 1)) \o <<s[Len(s)]>>

\* '/'.join(s.split('/')[:-1]): what precedes the last separator
DirName(s) ==
    LET n == Len(s) - Len(LastSegment(s))
    IN  IF n = 0 THEN <<>> ELSE SubSeq(s, 1, n - 1)

-----------------------------------------------------------------------------
(* Path rewriting.                                                         *)

\* main.py move_file: target_file_path
MoveTargetPath(file_path, source_path, TARGET_PATH) ==
    LET relative_path ==
            IF StartsWith(file_path, source_path)
            THEN LStrip(DropFirst(file_path, Len(source_path)))
            ELSE LStrip(file_path)
    IN  ReplaceAll(RStrip(TARGET_PATH) \o <<Sep>> \o relative_path,
                   <<Sep, Sep>>, <<Sep>>)

\* copy_and_delete_blob's fallback without the rstrip('/')
CopyTargetName_untrimmed(blob_name, source_prefix, target_prefix) ==
    LET replaced == ReplaceFirst(blob_name, source_prefix, target_prefix)
    IN  IF replaced = blob_name
        THEN target_prefix \o <<Sep>> \o LastSegment(blob_name)
        ELSE replaced

\* app.py copy_and_delete_blob: target_blob_name
CopyTargetName(blob_name, source_prefix, target_prefix) ==
    LET replaced == ReplaceFirst(blob_name, source_prefix, target_prefix)
    IN  IF replaced = blob_name
        THEN RStrip(target_prefix) \o <<Sep>> \o LastSegment(blob_name)
        ELSE replaced

-----------------------------------------------------------------------------
(* File content as json.loads sees it.  A JSON value is a record: t is its *)
(* type, s is what Python's str() makes of a scalar, items are a dict's    *)
(* <<key, value>> pairs in document order (a list's elements are pairs     *)
(* with an empty key).                                                     *)

JNum(digits) == [t |-> "num", s |-> digits, items |-> <<>>]
JStr(chars)  == [t |-> "str", s |-> chars, items |-> <<>>]
JNull        == [t |-> "null", s |-> "None", items |-> <<>>]
JDict(pairs) == [t |-> "dict", s |-> "", items |-> pairs]
JList(elems) == [t |-> "list", s |-> "",
                 items |-> [j \in 1..Len(elems) |-> <<"", elems[j]>>]]

\* content.decode('utf-8') fails / json.loads fails / json.loads gives data
Undecodable == [kind |-> "undecodable", data |-> JNull]
NotJson     == [kind |-> "notjson", data |-> JNull]
Json(data)  == [kind |-> "json", data |-> data]

IdKey == "SalesCompanyId"

\* Optional[str]: None, or a string
NoId     == [set |-> FALSE, s |-> ""]
Id(text) == [set |-> TRUE, s |-> text]

\* Optional[datetime]: None (also an absent or falsy attribute), or a time
NoTime == 0

\* 'SalesCompanyId' in d, for a dict d
HasIdKey(d) == \E j \in 1..Len(d.items) : d.items[j][1] = IdKey

\* d['SalesCompanyId'], for a dict d that has the key
IdValue(d) == d.items[CHOOSE j \in 1..Len(d.items) : d.items[j][1] = IdKey][2]

\* main.py check_file_content, lines 74-82: the loop over data.items(); the
\* first nested dict, or list whose first element is a dict, with the key.
RECURSIVE FindNested(_, _)
FindNested(items, j) ==
    IF j > Len(items) THEN NoId
    ELSE LET value == items[j][2]
         IN  IF value.t = "dict" /\ HasIdKey(value)
             THEN Id(IdValue(value).s)
             ELSE IF /\ value.t = "list"
                     /\ Len(value.items) > 0
                     /\ value.items[1][2].t = "dict"
                     /\ HasIdKey(value.items[1][2])
                  THEN Id(IdValue(value.items[1][2]).s)
                  ELSE FindNested(items, j + 1)

\* main.py check_file_content, lines 66-82: sales_company_id_found.  For data
\* that is no dict the search finds nothing or raises TypeError; both end in
\* return False, as a search that found nothing does.
IdFound(data) ==
    IF data.t # "dict" THEN NoId
    ELSE IF HasIdKey(data) THEN Id(IdValue(data).s)
    ELSE FindNested(data.items, 1)

\* main.py check_file_content: download_ok is whether download_file() and
\* readall() return rather than raise.
check_file_content(content, download_ok, sales_company_id) ==
    IF ~download_ok THEN FALSE
    ELSE IF content.kind = "undecodable" THEN FALSE
    ELSE IF content.kind = "notjson" THEN ~sales_company_id.set
    ELSE IF ~sales_company_id.set THEN TRUE
    ELSE LET found == IdFound(content.data)
         IN  /\ found.set
             /\ found.s = sales_company_id.s

\* main.py should_process_file, lines 120-124
FileDate(file_properties) ==
    IF file_properties.creation_time # NoTime
    THEN file_properties.creation_time
    ELSE file_properties.last_modified

Verdict(accept, reason, fetch) ==
    [accept |-> accept, reason |-> reason, fetch |-> fetch]

\* should_process_file with the content check moved before the date check
should_process_file_content_first(file_properties, content, download_ok, date_after, date_before, sales_company_id) ==
    LET file_date == FileDate(file_properties)
        content_ok ==
            check_file_content(content, download_ok, sales_company_id)
    IN  IF sales_company_id.set /\ ~content_ok
        THEN Verdict(FALSE, "SalesCompanyId does not match", TRUE)
        ELSE IF /\ file_date # NoTime
                /\ date_after # NoTime
                /\ file_date < date_after
        THEN Verdict(FALSE, "File uploaded before filter date",
                     sales_company_id.set)
        ELSE IF /\ file_date # NoTime
                /\ date_before # NoTime
                /\ file_date > date_before
        THEN Verdict(FALSE, "File uploaded after filter date",
                     sales_company_id.set)
        ELSE Verdict(TRUE, "Matches all criteria", sales_company_id.set)

\* should_process_file with the bounds themselves excluded (<= and >=)
should_process_file_strict_bounds(file_properties, content, download_ok, date_after, date_before, sales_company_id) ==
    LET file_date == FileDate(file_properties)
    IN  IF file_date # NoTime /\ date_after # NoTime /\ file_date <= date_after
        THEN Verdict(FALSE, "File uploaded before filter date", FALSE)
        ELSE IF /\ file_date # NoTime
                /\ date_before # NoTime
                /\ file_date >= date_before
        THEN Verdict(FALSE, "File uploaded after filter date", FALSE)
        ELSE IF ~sales_company_id.set
        THEN Verdict(TRUE, "Matches all criteria", FALSE)
        ELSE IF check_file_content(content, download_ok, sales_company_id)
        THEN Verdict(TRUE, "Matches all criteria", TRUE)
        ELSE Verdict(FALSE, "SalesCompanyId does not match", TRUE)

\* main.py should_process_file: (should_process, reason), and whether
\* check_file_content was called (it starts with the download).
should_process_file(file_properties, content, download_ok, date_after, date_before, sales_company_id) ==
    LET file_date == FileDate(file_properties)
    IN  IF file_date # NoTime /\ date_after # NoTime /\ file_date < date_after
        THEN Verdict(FALSE, "File uploaded before filter date", FALSE)
        ELSE IF /\ file_date # NoTime
                /\ date_before # NoTime
                /\ file_date > date_before
        THEN Verdict(FALSE, "File uploaded after filter date", FALSE)
        ELSE IF ~sales_company_id.set
        THEN Verdict(TRUE, "Matches all criteria", FALSE)
        ELSE IF check_file_content(content, download_ok, sales_company_id)
        THEN Verdict(TRUE, "Matches all criteria", TRUE)
        ELSE Verdict(FALSE, "SalesCompanyId does not match", TRUE)

-----------------------------------------------------------------------------
(* Values the variables hold while their part of the program is not the    *)
(* one being explored.                                                     *)

NoPath == <<>>

NoContent == [kind |-> "none", data |-> JNull]

RwIdle == [p |-> NoPath, sp |-> NoPath, tp |-> NoPath, via |-> "none",
           dest |-> NoPath]

FltIdle == [props |-> [creation_time |-> NoTime, last_modified |-> NoTime],
            content |-> NoContent, download_ok |-> FALSE,
            date_after |-> NoTime, date_before |-> NoTime,
            sales_company_id |-> NoId, evaluated |-> FALSE,
            verdict |-> Verdict(FALSE, "", FALSE)]

NoCsv == [kind |-> "missing", filenames |-> <<>>]

RunIdle ==
    /\ script = "none"
    /\ cfg = [source |-> NoPath, target |-> NoPath, date_after |-> NoTime,
              date_before |-> NoTime, sales_company_id |-> NoId,
              BATCH_SIZE |-> 1, MAX_WORKERS |-> 1, csv |-> NoCsv]
    /\ store = <<>>
    /\ store0 = <<>>
    /\ dirs = {}
    /\ pc = "none"
    /\ files = <<>>
    /\ k = 1
    /\ files_to_move = <<>>
    /\ i = 0
    /\ tasks = <<>>
    /\ successful = 0
    /\ failed = 0
    /\ mutations = {}
    /\ response = ""
    /\ pending = {}

-----------------------------------------------------------------------------
(* Specification of the path rewriting alone: every object name and every  *)
(* pair of prefixes up to the bounds, rewritten by either script.          *)

RwInit ==
    /\ rw \in [p : ObjectNames(MaxPathLen), sp : Prefixes(MaxPrefixLen),
               tp : Prefixes(MaxPrefixLen), via : {"none"}, dest : {NoPath}]
    /\ flt = FltIdle
    /\ RunIdle

\* main.py move_file, lines 152-159
RewriteByMoveFile ==
    /\ rw.via = "none"
    /\ rw' = [rw EXCEPT !.via = "move_file",
                        !.dest = MoveTargetPath(rw.p, rw.sp, rw.tp)]
    /\ UNCHANGED <<fltVars, runVars>>

\* app.py copy_and_delete_blob, lines 45-53
RewriteByCopyBlob ==
    /\ rw.via = "none"
    /\ rw' = [rw EXCEPT !.via = "copy_and_delete_blob",
                        !.dest = CopyTargetName(rw.p, rw.sp, rw.tp)]
    /\ UNCHANGED <<fltVars, runVars>>

RwNext == RewriteByMoveFile \/ RewriteByCopyBlob

SpecRewrite == RwInit /\ [][RwNext]_vars

-----------------------------------------------------------------------------
(* Specification of the predicate-mode filter alone: one candidate with    *)
(* every combination of properties, content and criteria up to the bounds. *)

Times == 1..MaxTime

OptTimes == {NoTime} \cup Times

Scalars == {JNum("42"), JStr("42"), JStr("7"), JNull}

\* values one level below the top of a document
NestedValues ==
    Scalars \cup
    { JDict(<< <<IdKey, JNum("42")>> >>),
      JDict(<< <<IdKey, JStr("7")>> >>),
      JDict(<< <<"Other", JNum("42")>> >>),
      JList(<<>>),
      JList(<< JDict(<< <<IdKey, JNum("42")>> >>) >>),
      JList(<< JStr("7"), JDict(<< <<IdKey, JNum("42")>> >>) >>) }

TopKeys == {IdKey, "Header", "Lines"}

\* documents: dicts of at most two keys, and some that are no dict
Documents ==
    {JDict(<<>>)}
    \cup {JDict(<< <<key, v>> >>) : key \in TopKeys, v \in NestedValues}
    \cup {JDict(<< <<"Header", v>>, <<"Lines", w>> >>) :
              v \in NestedValues, w \in NestedValues}
    \cup {JDict(<< <<"Header", v>>, <<IdKey, w>> >>) :
              v \in NestedValues, w \in Scalars}
    \cup {JList(<< JStr(IdKey) >>), JStr(IdKey), JNum("42"), JNull}

Contents == {Undecodable, NotJson} \cup {Json(d) : d \in Documents}

Criteria == {NoId, Id("42"), Id("7")}

FltInit ==
    /\ flt \in [props : [creation_time : OptTimes, last_modified : OptTimes],
                content : Contents, download_ok : BOOLEAN,
                date_after : OptTimes, date_before : OptTimes,
                sales_company_id : Criteria, evaluated : {FALSE},
                verdict : {Verdict(FALSE, "", FALSE)}]
    /\ rw = RwIdle
    /\ RunIdle

\* main.py main, lines 249-255: the call of should_process_file
Evaluate ==
    /\ ~flt.evaluated
    /\ flt' = [flt EXCEPT
                 !.evaluated = TRUE,
                 !.verdict = should_process_file(flt.props, flt.content,
                                 flt.download_ok, flt.date_after,
                                 flt.date_before, flt.sales_company_id)]
    /\ UNCHANGED <<rwVars, runVars>>

FltNext == Evaluate

SpecFilter == FltInit /\ [][FltNext]_vars

-----------------------------------------------------------------------------
(* The two scripts' runs against one container.                            *)

NoFile == [kind |-> "nofile", data |-> JNull]

Names == <<"a", "b", "c", "d", "e", "f", "g">>

\* config.AZURE_REMOTE_PATH ("raw/") and the target prefix
\* ("/files/sbt/quotes/"), shortened
SourcePrefix == <<"r", Sep>>
TargetPrefix == <<Sep, "t", Sep>>

\* the j-th object under the source prefix
SrcPath(j) == SourcePrefix \o <<Names[j]>>

\* what the j-th object holds: a document with its SalesCompanyId (7 for
\* the second object, 42 for the others) and its own name
SrcContent(j) ==
    Json(JDict(<< <<IdKey, JNum(IF j = 2 THEN "7" ELSE "42")>>,
                  <<"Name", JStr(Names[j])>> >>))

\* get_file_properties of the j-th object: the first is older than the rest
SrcProps(j) ==
    [creation_time |-> IF j = 1 THEN 1 ELSE 2, last_modified |-> 2]

\* a target prefix that lies under the source path ("raw/archive/")
NestedPrefix == SourcePrefix \o <<"t", Sep>>

\* an object under that prefix, named as the first object is
NestedPath == NestedPrefix \o <<Names[1]>>

\* the target prefixes of the runs that move: apart from the source path,
\* the source path itself, or under it
TargetPrefixes == {TargetPrefix, SourcePrefix, NestedPrefix}

\* the order in which get_paths(recursive=True) yields the objects
ListOrder == [j \in 1..MaxFiles |-> SrcPath(j)] \o <<NestedPath>>

SrcIndex(path) == CHOOSE j \in 1..Len(ListOrder) : ListOrder[j] = path

SrcPaths == {SrcPath(j) : j \in 1..MaxFiles}

\* every path a run can touch
AllPaths ==
    SrcPaths
    \cup {NestedPath}
    \cup {MoveTargetPath(q, SourcePrefix, tp) :
              q \in SrcPaths \cup {NestedPath}, tp \in TargetPrefixes}
    \cup {CopyTargetName(q, SourcePrefix, TargetPrefix) : q \in SrcPaths}

\* the container holding the first n objects
StoreWith(n) ==
    [q \in AllPaths |->
        IF \E j \in 1..n : SrcPath(j) = q THEN SrcContent(SrcIndex(q))
        ELSE NoFile]

\* the CSV: absent, unreadable, without a 'filename' column, or m rows; the
\* first row gives the full blob path, the others the bare file name
CsvFiles ==
    {[kind |-> kind, filenames |-> <<>>] :
        kind \in {"missing", "unreadable", "nocolumn"}}
    \cup {[kind |-> "ok",
           filenames |-> [j \in 1..m |->
                             IF j = 1 THEN SrcPath(1) ELSE <<Names[j]>>]] :
             m \in 0..MaxFiles}

\* the (date_after, sales_company_id) pairs explored in whole runs
FilterSettings ==
    {<<NoTime, NoId>>, <<2, Id("42")>>}

Init ==
    /\ rw = RwIdle
    /\ flt = FltIdle
    /\ script \in {"main", "app"}
    /\ \E batch \in 1..MaxBatch, workers \in 1..MaxWorkers,
          setting \in FilterSettings, csv \in CsvFiles :
          /\ script = "main" => csv = NoCsv
          /\ script = "app" => setting = <<NoTime, NoId>>
          /\ cfg = [source |-> SourcePrefix, target |-> TargetPrefix,
                    date_after |-> setting[1], date_before |-> NoTime,
                    sales_company_id |-> setting[2],
                    BATCH_SIZE |-> batch, MAX_WORKERS |-> workers,
                    csv |-> csv]
    /\ \E n \in 0..MaxFiles : store = StoreWith(n)
    /\ store0 = store
    /\ dirs = {}
    /\ pc = "start"
    /\ files = <<>>
    /\ k = 1
    /\ files_to_move = <<>>
    /\ i = 0
    /\ tasks = <<>>
    /\ successful = 0
    /\ failed = 0
    /\ mutations = {}
    /\ response = ""
    /\ pending = {}

(* ---- main.py: listing, filtering, confirmation ---- *)

\* main.py list_files_in_path: the files under the source path, in listing
\* order, or [] when get_paths raises
Listing(st) ==
    LET Present(q) == st[q] # NoFile
    IN  SelectSeq(ListOrder, Present)

\* main.py main, lines 232-236
ListFiles ==
    /\ script = "main"
    /\ pc = "start"
    /\ \E listed \in BOOLEAN :
          /\ files' = IF listed THEN Listing(store) ELSE <<>>
          /\ pc' = IF files' = <<>> THEN "exit_no_files" ELSE "filter"
    /\ UNCHANGED <<rw, flt, script, cfg, store, dirs, store0, k, files_to_move,
                   i, tasks, successful, failed, mutations, response, pending>>

\* main.py main, lines 242-260: one iteration of the filtering loop.
\* props_ok: get_file_properties returns; download_ok: the content download
\* of check_file_content returns.
FilterFile ==
    /\ script = "main"
    /\ pc = "filter"
    /\ k <= Len(files)
    /\ \E props_ok \in BOOLEAN, download_ok \in BOOLEAN :
          LET file_path == files[k]
              verdict == should_process_file(SrcProps(SrcIndex(file_path)),
                             store[file_path], download_ok, cfg.date_after,
                             cfg.date_before, cfg.sales_company_id)
          IN  files_to_move' = IF props_ok /\ verdict.accept
                               THEN Append(files_to_move, file_path)
                               ELSE files_to_move
    /\ k' = k + 1
    /\ UNCHANGED <<rw, flt, script, cfg, store, dirs, store0, pc, files, i,
                   tasks, successful, failed, mutations, response, pending>>

\* a call not yet handed to the executor
NewTask == [pc |-> "unsubmitted", target |-> NoPath, content |-> NoContent,
            calls |-> <<>>, result |-> "none", counted |-> FALSE]

\* main.py main, lines 262-266, and app.py main, lines 166-171: the
\* filtering loop is over
AfterFilter ==
    /\ pc = "filter"
    /\ k > Len(files)
    /\ pc' = IF files_to_move = <<>> THEN "exit_no_match"
             ELSE IF script = "main" THEN "confirm" ELSE "submit"
    /\ tasks' = IF files_to_move # <<>> /\ script = "app"
                THEN [t \in 1..Len(files_to_move) |-> NewTask]
                ELSE tasks
    /\ UNCHANGED <<rw, flt, script, cfg, store, dirs, store0, files, k,
                   files_to_move, i, successful, failed, mutations, response,
                   pending>>

\* what the operator may type
Responses == {"Yes", "no", "y "}

\* str.lower() on the responses
Lower(text) == IF text = "Yes" THEN "yes" ELSE text

\* faulty variant: the answer is not looked at
Proceeds_always(text) == TRUE

\* main.py main, line 270: response.lower() in ['yes', 'y']
Proceeds(text) == Lower(text) \in {"yes", "y"}

\* main.py main, lines 269-281
Confirm ==
    /\ script = "main"
    /\ pc = "confirm"
    /\ \E typed \in Responses :
          /\ response' = typed
          /\ pc' = IF Proceeds(typed) THEN "submit" ELSE "exit_cancelled"
    /\ tasks' = [t \in 1..Len(files_to_move) |-> NewTask]
    /\ UNCHANGED <<rw, flt, script, cfg, store, dirs, store0, files, k,
                   files_to_move, i, successful, failed, mutations, pending>>

(* ---- app.py: the manifest and the existence checks ---- *)

\* app.py get_filenames_from_csv
get_filenames_from_csv(csv) ==
    IF csv.kind = "ok" THEN csv.filenames ELSE <<>>

\* app.py filter_blobs_by_csv_filenames, lines 105-111: csv_blob_paths
csv_blob_paths(csv_filenames, source_prefix) ==
    [j \in 1..Len(csv_filenames) |->
        IF StartsWith(csv_filenames[j], source_prefix)
        THEN csv_filenames[j]
        ELSE RStrip(source_prefix) \o <<Sep>> \o csv_filenames[j]]

\* app.py main, lines 158-161, and filter_blobs_by_csv_filenames up to the
\* loop over the blob paths
ReadCsv ==
    /\ script = "app"
    /\ pc = "start"
    /\ LET csv_filenames == get_filenames_from_csv(cfg.csv)
       IN  /\ files' = csv_blob_paths(csv_filenames, cfg.source)
           /\ pc' = IF csv_filenames = <<>> THEN "exit_no_filenames"
                    ELSE "filter"
    /\ UNCHANGED <<rw, flt, script, cfg, store, dirs, store0, k, files_to_move,
                   i, tasks, successful, failed, mutations, response, pending>>

\* app.py filter_blobs_by_csv_filenames, lines 119-131: one existence check;
\* a check that raises counts as not found
CheckBlob ==
    /\ script = "app"
    /\ pc = "filter"
    /\ k <= Len(files)
    /\ \E answered \in BOOLEAN :
          files_to_move' = IF answered /\ store[files[k]] # NoFile
                           THEN Append(files_to_move, files[k])
                           ELSE files_to_move
    /\ k' = k + 1
    /\ UNCHANGED <<rw, flt, script, cfg, store, dirs, store0, pc, files, i,
                   tasks, successful, failed, mutations, response, pending>>

(* ---- both scripts: batches on a thread pool ---- *)

\* batch = files_to_move[i:i + BATCH_SIZE], as 1-based task indices
InBatch(t) ==
    /\ t \in 1..Len(files_to_move)
    /\ i < t
    /\ t <= i + cfg.BATCH_SIZE

\* a worker thread is inside the call
Running(t) ==
    tasks[t].pc \in {"exists", "create", "download", "upload", "delete", "copy"}

Resolved(t) == tasks[t].pc = "done"

\* ThreadPoolExecutor(max_workers=MAX_WORKERS): a thread is idle or can
\* still be created
FreeWorker ==
    Cardinality({t \in 1..Len(tasks) : Running(t)}) < cfg.MAX_WORKERS

\* main.py main, line 288, and app.py main, line 181: every call of the
\* batch is handed to the executor
SubmitBatch ==
    /\ pc = "submit"
    /\ tasks' = [t \in 1..Len(tasks) |->
                    IF InBatch(t) THEN [tasks[t] EXCEPT !.pc = "queued"]
                    ELSE tasks[t]]
    /\ pc' = "collect"
    /\ UNCHANGED <<rw, flt, script, cfg, store, dirs, store0, files, k,
                   files_to_move, i, successful, failed, mutations, response,
                   pending>>

\* main.py move_file, lines 168-176: with a target directory the existence
\* check comes first, else the download
FirstStep(target) ==
    IF DirName(target) # NoPath THEN "exists" ELSE "download"

\* faulty variant: the source is deleted before the upload
StepAfter_delete_first(call, answer) ==
    CASE call = "exists"   -> IF answer THEN "download" ELSE "create"
      [] call = "create"   -> "download"
      [] call = "download" -> "delete"
      [] call = "delete"   -> "upload"
      [] call = "upload"   -> "done"

\* main.py move_file, lines 171-188: the store call that follows a call that
\* returned (answer: what exists() returned)
StepAfter(call, answer) ==
    CASE call = "exists"   -> IF answer THEN "download" ELSE "create"
      [] call = "create"   -> "download"
      [] call = "download" -> "upload"
      [] call = "upload"   -> "delete"
      [] call = "delete"   -> "done"

\* the executor's worker takes the oldest queued call and enters it:
\* main.py move_file, lines 154-165; app.py copy_and_delete_blob, lines 38-57
StartTask(t) ==
    /\ pc = "collect"
    /\ tasks[t].pc = "queued"
    /\ \A u \in 1..(t - 1) : tasks[u].pc # "queued"
    /\ FreeWorker
    /\ LET target == IF script = "main"
                     THEN MoveTargetPath(files_to_move[t], cfg.source,
                                         cfg.target)
                     ELSE CopyTargetName(files_to_move[t], cfg.source,
                                         cfg.target)
       IN  tasks' = [tasks EXCEPT
                        ![t].target = target,
                        ![t].pc = IF script = "main" THEN FirstStep(target)
                                  ELSE "copy"]
    /\ UNCHANGED <<rw, flt, script, cfg, store, dirs, store0, pc, files, k,
                   files_to_move, i, successful, failed, mutations, response,
                   pending>>

Called(op, ok) == [op |-> op, ok |-> ok]

\* the call returned: on to the next one, or return True after the last
Returned(t, op, answer) ==
    LET next == StepAfter(op, answer)
    IN  [tasks[t] EXCEPT !.pc = next,
                         !.calls = Append(@, Called(op, TRUE)),
                         !.result = IF next = "done" THEN "true" ELSE @]

\* main.py move_file, lines 190-192: the call raised; return False
Raised(t, op) ==
    [tasks[t] EXCEPT !.pc = "done",
                     !.calls = Append(@, Called(op, FALSE)),
                     !.result = "false"]

\* main.py move_file, line 171: directory_client.exists()
DirectoryExists(t) ==
    /\ tasks[t].pc = "exists"
    /\ \E ok \in BOOLEAN :
          tasks' = [tasks EXCEPT ![t] =
                       IF ok
                       THEN Returned(t, "exists",
                                     DirName(tasks[t].target) \in dirs)
                       ELSE Raised(t, "exists")]
    /\ UNCHANGED <<rw, flt, script, cfg, store, dirs, store0, pc, files, k,
                   files_to_move, i, successful, failed, mutations, response,
                   pending>>

\* main.py move_file, line 172: directory_client.create_directory()
CreateDirectory(t) ==
    /\ tasks[t].pc = "create"
    /\ mutations' = mutations \cup {"create_directory"}
    /\ \E ok \in BOOLEAN :
          /\ tasks' = [tasks EXCEPT ![t] =
                          IF ok THEN Returned(t, "create", TRUE)
                          ELSE Raised(t, "create")]
          /\ dirs' = IF ok THEN dirs \cup {DirName(tasks[t].target)}
                     ELSE dirs
    /\ UNCHANGED <<rw, flt, script, cfg, store, store0, pc, files, k,
                   files_to_move, i, successful, failed, response, pending>>

\* main.py move_file, lines 176-177: download_file().readall(); it raises
\* when the source is gone
Download(t) ==
    /\ tasks[t].pc = "download"
    /\ \E ok \in BOOLEAN :
          tasks' = [tasks EXCEPT ![t] =
                       IF ok /\ store[files_to_move[t]] # NoFile
                       THEN [Returned(t, "download", TRUE) EXCEPT
                                !.content = store[files_to_move[t]]]
                       ELSE Raised(t, "download")]
    /\ UNCHANGED <<rw, flt, script, cfg, store, dirs, store0, pc, files, k,
                   files_to_move, i, successful, failed, mutations, response,
                   pending>>

\* upload_data(data, overwrite=True) on the container
Uploaded(st, path, content) == [st EXCEPT ![path] = content]

\* delete_file() on the container
Deleted(st, path) == [st EXCEPT ![path] = NoFile]

\* main.py move_file, lines 179-182: target_file_client.upload_data
Upload(t) ==
    /\ tasks[t].pc = "upload"
    /\ mutations' = mutations \cup {"upload_data"}
    /\ \E ok \in BOOLEAN :
          /\ tasks' = [tasks EXCEPT ![t] =
                          IF ok THEN Returned(t, "upload", TRUE)
                          ELSE Raised(t, "upload")]
          /\ store' = IF ok
                      THEN Uploaded(store, tasks[t].target, tasks[t].content)
                      ELSE store
    /\ UNCHANGED <<rw, flt, script, cfg, dirs, store0, pc, files, k,
                   files_to_move, i, successful, failed, response, pending>>

\* main.py move_file, line 185: source_file_client.delete_file(); it raises
\* when the source is gone
Delete(t) ==
    /\ tasks[t].pc = "delete"
    /\ mutations' = mutations \cup {"delete_file"}
    /\ \E ok \in BOOLEAN :
          LET done == ok /\ store[files_to_move[t]] # NoFile
          IN  /\ tasks' = [tasks EXCEPT ![t] =
                              IF done THEN Returned(t, "delete", TRUE)
                              ELSE Raised(t, "delete")]
              /\ store' = IF done THEN Deleted(store, files_to_move[t])
                          ELSE store
    /\ UNCHANGED <<rw, flt, script, cfg, dirs, store0, pc, files, k,
                   files_to_move, i, successful, failed, response, pending>>

\* faulty variant: the commented-out delete_blob of lines 65-66 is carried out
AfterCopyIssued_delete(st, blob_name) == Deleted(st, blob_name)

\* app.py copy_and_delete_blob, lines 60-67: what follows a copy that was
\* issued; the wait and the delete of the original are commented out
AfterCopyIssued(st, blob_name) == st

\* app.py copy_and_delete_blob, lines 59-69: start_copy_from_url; it raises
\* when the source is gone; either way the function returns None
StartCopy(t) ==
    /\ tasks[t].pc = "copy"
    /\ mutations' = mutations \cup {"start_copy_from_url"}
    /\ \E ok \in BOOLEAN :
          LET issued == ok /\ store[files_to_move[t]] # NoFile
          IN  /\ tasks' = [tasks EXCEPT
                              ![t].pc = "done",
                              ![t].calls = Append(@, Called("copy", issued))]
              /\ pending' = IF issued
                            THEN pending \cup {<<files_to_move[t],
                                                 tasks[t].target>>}
                            ELSE pending
              /\ store' = IF issued
                          THEN AfterCopyIssued(store, files_to_move[t])
                          ELSE store
    /\ UNCHANGED <<rw, flt, script, cfg, dirs, store0, pc, files, k,
                   files_to_move, i, successful, failed, response>>

\* the storage service carries out a copy that was issued
ServerCopy(copy) ==
    /\ copy \in pending
    /\ pending' = pending \ {copy}
    /\ store' = IF store[copy[1]] # NoFile
                THEN Uploaded(store, copy[2], store[copy[1]])
                ELSE store
    /\ UNCHANGED <<rw, flt, script, cfg, dirs, store0, pc, files, k,
                   files_to_move, i, tasks, successful, failed, mutations,
                   response>>

\* faulty variant: a False result is not counted
TallyResult_drops_false(result) ==
    CASE result = "true"   -> <<1, 0>>
      [] result = "false"  -> <<0, 0>>
      [] result = "raised" -> <<0, 1>>

\* main.py main, lines 291-299: what one future adds to (successful, failed)
TallyResult(result) ==
    CASE result = "true"   -> <<1, 0>>
      [] result = "false"  -> <<0, 1>>
      [] result = "raised" -> <<0, 1>>

\* main.py main, lines 289-299, and app.py main, lines 182-183: as_completed
\* yields a finished future
Tally(t) ==
    /\ pc = "collect"
    /\ InBatch(t)
    /\ Resolved(t)
    /\ ~tasks[t].counted
    /\ tasks' = [tasks EXCEPT ![t].counted = TRUE]
    /\ successful' = IF script = "main"
                     THEN successful + TallyResult(tasks[t].result)[1]
                     ELSE successful
    /\ failed' = IF script = "main"
                 THEN failed + TallyResult(tasks[t].result)[2]
                 ELSE failed
    /\ UNCHANGED <<rw, flt, script, cfg, store, dirs, store0, pc, files, k,
                   files_to_move, i, mutations, response, pending>>

\* faulty variant: the executor is left without waiting for its futures
BatchCollected_no_wait == TRUE

\* main.py main, lines 287-300, and app.py main, lines 180-184: as_completed
\* is exhausted and the with block has shut the executor down
BatchCollected == \A t \in 1..Len(tasks) : InBatch(t) => tasks[t].counted

\* faulty variant: the loop over the batches stops after a failure
MoreBatches_until_failure(next_i) ==
    next_i < Len(files_to_move) /\ failed = 0

\* main.py main, line 283, and app.py main, line 176:
\* range(0, len(...), BATCH_SIZE) has a next value
MoreBatches(next_i) == next_i < Len(files_to_move)

\* main.py main, lines 301-302, and app.py main, lines 185-186: the futures
\* of the batch are dropped and collected; what stays of a call is its
\* result, already counted
Released(task) ==
    [task EXCEPT !.target = NoPath, !.content = NoContent, !.calls = <<>>]

\* main.py main, lines 300-309, and app.py main, lines 184-189: the batch is
\* over; the next one, or the end of the run
EndBatch ==
    /\ pc = "collect"
    /\ BatchCollected
    /\ tasks' = [t \in 1..Len(tasks) |->
                    IF InBatch(t) /\ Resolved(t) THEN Released(tasks[t])
                    ELSE tasks[t]]
    /\ i' = i + cfg.BATCH_SIZE
    /\ pc' = IF MoreBatches(i') THEN "submit" ELSE "complete"
    /\ UNCHANGED <<rw, flt, script, cfg, store, dirs, store0, files, k,
                   files_to_move, successful, failed, mutations, response,
                   pending>>

Next ==
    \/ ListFiles
    \/ FilterFile
    \/ AfterFilter
    \/ Confirm
    \/ ReadCsv
    \/ CheckBlob
    \/ SubmitBatch
    \/ \E t \in 1..Len(tasks) : StartTask(t)
    \/ \E t \in 1..Len(tasks) : DirectoryExists(t)
    \/ \E t \in 1..Len(tasks) : CreateDirectory(t)
    \/ \E t \in 1..Len(tasks) : Download(t)
    \/ \E t \in 1..Len(tasks) : Upload(t)
    \/ \E t \in 1..Len(tasks) : Delete(t)
    \/ \E t \in 1..Len(tasks) : StartCopy(t)
    \/ \E t \in 1..Len(tasks) : Tally(t)
    \/ \E copy \in pending : ServerCopy(copy)
    \/ EndBatch

Spec == Init /\ [][Next]_vars

-----------------------------------------------------------------------------
(* main.py's runs with the target prefix apart from the source path, equal *)
(* to it, or under it (TARGET_PATH and source_path are free settings).     *)

\* the directories above a path
RECURSIVE Ancestors(_)
Ancestors(path) ==
    IF DirName(path) = NoPath THEN {}
    ELSE {DirName(path)} \cup Ancestors(DirName(path))

\* the container holding the first n objects and, if nested, one object
\* under the nested prefix
StoreMove(n, nested) ==
    [q \in AllPaths |->
        IF nested /\ q = NestedPath THEN SrcContent(SrcIndex(q))
        ELSE StoreWith(n)[q]]

MoveInit ==
    /\ rw = RwIdle
    /\ flt = FltIdle
    /\ script = "main"
    /\ \E batch \in 1..MaxBatch, workers \in 1..MaxWorkers,
          setting \in FilterSettings, target \in TargetPrefixes :
          cfg = [source |-> SourcePrefix, target |-> target,
                 date_after |-> setting[1], date_before |-> NoTime,
                 sales_company_id |-> setting[2],
                 BATCH_SIZE |-> batch, MAX_WORKERS |-> workers,
                 csv |-> NoCsv]
    /\ \E n \in 0..MaxMoveFiles, nested \in BOOLEAN :
          store = StoreMove(n, nested)
    /\ store0 = store
    /\ dirs = UNION {Ancestors(q) : q \in {r \in AllPaths : store[r] # NoFile}}
    /\ pc = "start"
    /\ files = <<>>
    /\ k = 1
    /\ files_to_move = <<>>
    /\ i = 0
    /\ tasks = <<>>
    /\ successful = 0
    /\ failed = 0
    /\ mutations = {}
    /\ response = ""
    /\ pending = {}

MoveNext ==
    \/ ListFiles
    \/ FilterFile
    \/ AfterFilter
    \/ Confirm
    \/ SubmitBatch
    \/ \E t \in 1..Len(tasks) : StartTask(t)
    \/ \E t \in 1..Len(tasks) : DirectoryExists(t)
    \/ \E t \in 1..Len(tasks) : CreateDirectory(t)
    \/ \E t \in 1..Len(tasks) : Download(t)
    \/ \E t \in 1..Len(tasks) : Upload(t)
    \/ \E t \in 1..Len(tasks) : Delete(t)
    \/ \E t \in 1..Len(tasks) : Tally(t)
    \/ EndBatch

SpecMove == MoveInit /\ [][MoveNext]_vars

-----------------------------------------------------------------------------
(* Claims about the path rewriting (checked under SpecRewrite).            *)

\* the non-empty separator-delimited segments of s, in order
RECURSIVE Segments(_)
Segments(s) ==
    IF s = <<>> THEN <<>>
    ELSE IF Head(s) = Sep THEN Segments(Tail(s))
    ELSE LET stops == {n \in 1..Len(s) : s[n] = Sep}
             n == IF stops = {} THEN Len(s) + 1
                  ELSE CHOOSE m \in stops : \A o \in stops : m <= o
         IN  <<SubSeq(s, 1, n - 1)>> \o Segments(SubSeq(s, n, Len(s)))

\* sub occurs in s
Contains(s, sub) ==
    \E n \in 0..(Len(s) - Len(sub)) : SubSeq(s, n + 1, n + Len(sub)) = sub

\* b is the final separator-delimited segment of s
IsBasename(b, s) ==
    \E n \in 0..Len(s) :
        /\ b = DropFirst(s, n)
        /\ \A m \in 1..Len(b) : b[m] # Sep
        /\ n = 0 \/ s[n] = Sep

\* t is prefix with its trailing separators trimmed
IsTrimmed(t, prefix) ==
    /\ StartsWith(prefix, t)
    /\ \A m \in (Len(t) + 1)..Len(prefix) : prefix[m] = Sep
    /\ t = <<>> \/ t[Len(t)] # Sep

Rewritten == rw.via # "none"

\* dest is p with the prefix sp stripped once and re-parented under tp
Reparented(dest, p, sp, tp) ==
    Segments(dest) = Segments(tp) \o Segments(DropFirst(p, Len(sp)))

\* C8: for every source path that has the source prefix as a literal
\* prefix, and all prefixes, the destination computed by either script is
\* the path with that prefix stripped once, re-parented under the target
\* prefix, and has no doubled separator.
C8_RewriteStripsAndReparents ==
    (Rewritten /\ StartsWith(rw.p, rw.sp)) =>
        /\ Reparented(rw.dest, rw.p, rw.sp, rw.tp)
        /\ NoDoubledSep(rw.dest)

\* C9 as stated: in manifest mode, for a source path that does not contain
\* the source prefix, the destination is targetPrefix + basename(p).
C9_FallbackIsPrefixPlusBasename ==
    (rw.via = "copy_and_delete_blob" /\ ~Contains(rw.p, rw.sp)) =>
        \E n \in 0..Len(rw.p) :
            /\ IsBasename(DropFirst(rw.p, n), rw.p)
            /\ rw.dest = rw.tp \o DropFirst(rw.p, n)

\* C9 amended: in manifest mode, for a source path that does not contain
\* the source prefix, the destination is the target prefix with its trailing
\* separators trimmed, one separator, and basename(p).
C9_FallbackIsTrimmedPrefixSepBasename ==
    (rw.via = "copy_and_delete_blob" /\ ~Contains(rw.p, rw.sp)) =>
        \E n \in 0..Len(rw.p), m \in 0..Len(rw.tp) :
            /\ IsBasename(DropFirst(rw.p, n), rw.p)
            /\ IsTrimmed(SubSeq(rw.tp, 1, m), rw.tp)
            /\ rw.dest = SubSeq(rw.tp, 1, m) \o <<Sep>> \o DropFirst(rw.p, n)

\* C9 witness: the fallback taken for a path with a directory part, under
\* a target prefix that ends with a separator.
C9_Witness ==
    /\ rw.via = "copy_and_delete_blob"
    /\ ~Contains(rw.p, rw.sp)
    /\ rw.p = <<"a", Sep, "b">>
    /\ rw.tp = <<"a", Sep>>
    /\ rw.dest = <<"a", Sep, "b">>

-----------------------------------------------------------------------------
(* Claims about the predicate-mode filter (checked under SpecFilter).      *)

\* C6: a candidate whose timestamp is strictly below the lower bound is
\* rejected as uploaded before the window, and its content is not fetched.
C6_BeforeWindowRejectedUnfetched ==
    (/\ flt.evaluated
     /\ flt.date_after # NoTime
     /\ FileDate(flt.props) # NoTime
     /\ FileDate(flt.props) < flt.date_after) =>
        /\ ~flt.verdict.accept
        /\ flt.verdict.reason = "File uploaded before filter date"
        /\ ~flt.verdict.fetch

\* C6 witness: a candidate below the lower bound whose content would have
\* matched the identifier criterion, evaluated.
C6_Witness ==
    /\ flt.evaluated
    /\ flt.date_after = 2
    /\ FileDate(flt.props) = 1
    /\ flt.sales_company_id = Id("42")
    /\ flt.download_ok
    /\ flt.content = Json(JDict(<< <<IdKey, JNum("42")>> >>))
    /\ ~flt.verdict.accept

\* the dict that holds the identifier one level deep in value v, if any
IdHolders(v) ==
    IF v.t = "dict" /\ HasIdKey(v) THEN {v}
    ELSE IF /\ v.t = "list"
            /\ Len(v.items) > 0
            /\ v.items[1][2].t = "dict"
            /\ HasIdKey(v.items[1][2])
         THEN {v.items[1][2]}
         ELSE {}

\* the identifier of a document as a string: at top level, else the first
\* one found one level deep; empty when there is none
Identifiers(data) ==
    IF data.t # "dict" THEN {}
    ELSE IF HasIdKey(data) THEN {IdValue(data).s}
    ELSE LET hits == {j \in 1..Len(data.items) :
                          IdHolders(data.items[j][2]) # {}}
         IN  IF hits = {} THEN {}
             ELSE LET first == CHOOSE j \in hits : \A h \in hits : j <= h
                  IN  {IdValue(d).s : d \in IdHolders(data.items[first][2])}

InWindow(date, date_after, date_before) ==
    \/ date = NoTime
    \/ /\ date_after = NoTime \/ date >= date_after
       /\ date_before = NoTime \/ date <= date_before

\* C10: should_process_file accepts exactly when the timestamp is missing or
\* within the set bounds (bounds included) and, with an identifier criterion
\* set, the fetched content parses and its identifier (top level, else first
\* match one level deep) equals the criterion as a string; with no
\* identifier criterion the content is not fetched.
C10_FilterDecision ==
    flt.evaluated =>
        /\ flt.verdict.accept <=>
              /\ InWindow(FileDate(flt.props), flt.date_after, flt.date_before)
              /\ flt.sales_company_id.set =>
                    /\ flt.download_ok
                    /\ flt.content.kind = "json"
                    /\ flt.sales_company_id.s \in Identifiers(flt.content.data)
        /\ ~flt.sales_company_id.set => ~flt.verdict.fetch

\* C10 witness: accepted with the timestamp equal to both bounds and the
\* identifier, a number, found in the first element of a nested list.
C10_Witness ==
    /\ flt.evaluated
    /\ flt.verdict.accept
    /\ FileDate(flt.props) = 2
    /\ flt.date_after = 2
    /\ flt.date_before = 2
    /\ flt.sales_company_id = Id("42")
    /\ flt.content = Json(JDict(<< <<"Header", JStr("7")>>,
           <<"Lines", JList(<< JDict(<< <<IdKey, JNum("42")>> >>) >>)>> >>))

-----------------------------------------------------------------------------
(* Claims about whole runs (checked under Spec).                           *)

EarlyExits ==
    {"exit_no_files", "exit_no_match", "exit_cancelled", "exit_no_filenames"}

TaskIds == 1..Len(tasks)

\* C1: when main.py's transfer loop is over, successful + failed is the
\* number of files handed to it, whatever the batch size, the worker count
\* and the outcomes of the calls.
C1_TallyCountsEveryTask ==
    (script = "main" /\ pc = "complete") =>
        successful + failed = Len(files_to_move)

\* C1 witness: a completed run of three batches, some calls having
\* returned True and some False.
C1_Witness ==
    /\ script = "main"
    /\ pc = "complete"
    /\ Len(files_to_move) = 3
    /\ cfg.BATCH_SIZE = 1
    /\ successful = 2
    /\ failed = 1

\* C2: a call that fails stops neither the calls of its batch nor a later
\* batch: at the end of the run every call has been executed and resolved,
\* successful counts the calls that returned True and failed the others
\* (so four files in batches of two, the second call alone failing, end as
\* 3 and 1).
C2_NoEarlyTermination ==
    (script = "main" /\ pc = "complete") =>
        /\ \A t \in TaskIds :
              /\ Resolved(t)
              /\ tasks[t].counted
              /\ tasks[t].result \in {"true", "false"}
        /\ successful = Cardinality({t \in TaskIds : tasks[t].result = "true"})
        /\ failed = Cardinality({t \in TaskIds : tasks[t].result # "true"})
        /\ (/\ Len(files_to_move) = 4
            /\ {t \in TaskIds : tasks[t].result = "false"} = {2}) =>
                 successful = 3 /\ failed = 1

\* C2 witness: scenario E, completed.
C2_Witness ==
    /\ script = "main"
    /\ pc = "complete"
    /\ cfg.BATCH_SIZE = 2
    /\ cfg.MAX_WORKERS = 2
    /\ Len(files_to_move) = 4
    /\ [t \in TaskIds |-> tasks[t].result] = <<"true", "false", "true", "true">>
    /\ successful = 3
    /\ failed = 1

\* C3: in both scripts the calls in flight all belong to the current batch
\* and are at most MAX_WORKERS; every call of an earlier batch is resolved
\* and no call of a later batch has been handed to the executor.
C3_BatchesSequential ==
    /\ \A t \in TaskIds : Running(t) => InBatch(t)
    /\ Cardinality({t \in TaskIds : Running(t)}) <= cfg.MAX_WORKERS
    /\ \A t \in TaskIds : t <= i => Resolved(t)
    /\ \A t \in TaskIds : t > i + cfg.BATCH_SIZE => tasks[t].pc = "unsubmitted"

\* C3 witness: app.py with two calls of the second batch in flight.
C3_Witness ==
    /\ script = "app"
    /\ i = 2
    /\ cfg.BATCH_SIZE = 2
    /\ Len(tasks) = 4
    /\ Running(3)
    /\ Running(4)

\* the order of move_file's store calls in the code: the directory is seen
\* to first, then download, upload, delete
RankDirectoryFirst(op) ==
    CASE op = "exists" -> 1 [] op = "create" -> 2 [] op = "download" -> 3
      [] op = "upload" -> 4 [] op = "delete" -> 5

\* the order as claimed: download first, then the directory, upload, delete
RankDownloadFirst(op) ==
    CASE op = "download" -> 1 [] op = "exists" -> 2 [] op = "create" -> 3
      [] op = "upload" -> 4 [] op = "delete" -> 5

HasCall(calls, op, ok) ==
    \E a \in 1..Len(calls) : calls[a] = Called(op, ok)

\* what move_file's calls obey, given the rank of each step in the order
MoveFileSteps(Rank(_)) ==
    script = "main" =>
        \A t \in TaskIds :
            LET calls == tasks[t].calls
            IN  \* the steps come in the given order
                /\ \A a \in 1..Len(calls), b \in 1..Len(calls) :
                      a < b => Rank(calls[a].op) < Rank(calls[b].op)
                \* a step first happens when all steps before it in the
                \* order, the conditional creation apart, have happened
                /\ \A a \in 1..Len(calls) :
                      \A op \in {"download", "upload", "delete"}
                                 \cup (IF DirName(tasks[t].target) # NoPath
                                       THEN {"exists"} ELSE {}) :
                          Rank(op) < Rank(calls[a].op) =>
                              \E b \in 1..(a - 1) : calls[b].op = op
                \* a step that fails is the last one: the call reports
                \* failure
                /\ \A a \in 1..Len(calls) :
                      ~calls[a].ok => /\ a = Len(calls)
                                      /\ Resolved(t)
                                      /\ tasks[t].result = "false"
                \* the source is deleted only after the upload succeeded
                /\ HasCall(calls, "delete", TRUE) =>
                      HasCall(calls, "upload", TRUE)
                \* nothing is rolled back: uploaded and not deleted, the
                \* object is at both places
                /\ (HasCall(calls, "upload", TRUE)
                       /\ HasCall(calls, "delete", FALSE)) =>
                      /\ store[files_to_move[t]] = tasks[t].content
                      /\ store[tasks[t].target] = tasks[t].content
                      /\ tasks[t].content # NoContent

\* C4 as stated: the steps of a move_file call happen in the order download,
\* ensure destination directory, upload, delete; a failing step is the last
\* and the call reports failure; the source is deleted only after the upload
\* succeeded; nothing is rolled back.
C4_StepsDownloadFirst == MoveFileSteps(RankDownloadFirst)

\* C4 amended: the steps of a move_file call happen in the order ensure
\* destination directory (existence check, creation if absent), download,
\* upload, delete; a failing step is the last and the call reports failure;
\* the source is deleted only after the upload succeeded; nothing is rolled
\* back.
C4_StepsDirectoryFirst == MoveFileSteps(RankDirectoryFirst)

\* C4 witness: a call whose upload succeeded and whose delete failed,
\* counted, with the object at both places.
C4_Witness ==
    /\ script = "main"
    /\ \E t \in TaskIds :
          /\ [a \in 1..Len(tasks[t].calls) |-> tasks[t].calls[a].op]
                = <<"exists", "create", "download", "upload", "delete">>
          /\ ~tasks[t].calls[5].ok
          /\ tasks[t].counted
          /\ failed >= 1
          /\ store[files_to_move[t]] # NoFile
          /\ store[tasks[t].target] = store[files_to_move[t]]

C7_EarlyExitLeavesStoreAlone ==
    (pc \in EarlyExits \/ (response # "" /\ Lower(response) \notin {"yes", "y"}))
        => /\ mutations = {}
           /\ store = store0
           /\ dirs = {}
           /\ pending = {}

\* C7 witness: the confirmation declined with candidates accepted.
C7_Witness ==
    /\ pc = "exit_cancelled"
    /\ response = "y "
    /\ Len(files_to_move) >= 2

-----------------------------------------------------------------------------
(* Claims about main.py's runs under any target prefix (checked under      *)
(* SpecMove).                                                              *)

\* where move_file puts the object at path
Destination(path) == MoveTargetPath(path, cfg.source, cfg.target)

\* the content the object at path held when the run began is at its source
\* path or at its destination
Kept(path) ==
    \/ store[path] = store0[path]
    \/ store[Destination(path)] = store0[path]

\* C11: in every state of a main.py run, whatever the interleaving of the
\* move_file calls of a batch and whichever store calls fail, the content
\* that each accepted object held when the run began is stored at its
\* source path or at its destination, also when a destination is another
\* accepted object's source path or the object's own.
C11_NoContentLost ==
    script = "main" =>
        \A t \in 1..Len(files_to_move) : Kept(files_to_move[t])

\* C11 restricted to the runs whose destinations are no object's path: the
\* target prefix apart from the source path.
C11_NoContentLostApart ==
    (script = "main" /\ cfg.target = TargetPrefix) =>
        \A t \in 1..Len(files_to_move) : Kept(files_to_move[t])

\* a run over destinations apart from the sources, completed, with an
\* object moved and another left by a failed call
C11_ApartReached ==
    /\ script = "main"
    /\ cfg.target = TargetPrefix
    /\ pc = "complete"
    /\ successful >= 1
    /\ failed >= 1
    /\ \E t \in 1..Len(files_to_move) :
          /\ store[files_to_move[t]] = NoFile
          /\ store[Destination(files_to_move[t])] = store0[files_to_move[t]]

====
